---- MODULE Spec2Model ----
(***************************************************************************)
(* Red-black interval tree of app/core/algorithms/red_black_tree.py.       *)
(* Nodes are objects in a heap addressed by identity; the tree holds the   *)
(* root reference and the NIL_LEAF sentinel.  Instants are days counted    *)
(* from datetime.min.                                                      *)
(***************************************************************************)
EXTENDS Integers, Sequences, FiniteSets, TLC

\* ---- bounds of the model ----
\* nodes constructed and inserted in one behaviour
MaxNodes == 4
\* instants range over DatetimeMin..MaxTime
MaxTime == 2
\* delete calls in one behaviour
MaxDeletes == 1
\* the queries of the demonstration range over the days 1..MaxMainDay of January
MaxMainDay == 25

\* ---- references and constants of the program ----
None == -1
NIL_LEAF == 0
RED == "RED"
BLACK == "BLACK"
DatetimeMin == 0

Times == DatetimeMin..MaxTime

VARIABLES heap, root, deleted, query, result, call

vars == <<heap, root, deleted, query, result, call>>

\* no find_conflict call has returned since the last mutation
NoQuery == <<>>

\* call records the last call when it was made outside the contract of the
\* public interface (a construction from an invalid range, a delete of a node
\* that is not stored, a rotation called directly) together with the
\* exception it raised; a regular insert, delete or find_conflict leaves
\* RegularCall
RegularCall == [op |-> "regular", arg |-> None, raised |-> None]

Max2(a, b) == IF a >= b THEN a ELSE b

Max3(a, b, c) == Max2(a, Max2(b, c))

\* the guard with the comparison made strict, so that an empty range passes
ValidInterval_EmptyAccepted(s, e) == ~(s > e)

\* IntervalNode.__init__ guard: start >= end raises ValueError
ValidInterval(s, e) == ~(s >= e)

\* IntervalNode.__init__
IntervalNode(s, e, d) ==
  [start |-> s, end |-> e, max_end |-> e, color |-> RED,
   left |-> None, right |-> None, parent |-> None, data |-> d]

\* RedBlackIntervalTree.__init__: the sentinel, coloured BLACK
NilNode == [IntervalNode(DatetimeMin, DatetimeMin + 1, None) EXCEPT !.color = BLACK]

\* the tree object: the heap of nodes it can reach, and its root reference
Tree == [heap |-> heap, root |-> root]

IsReal(n) == n # None /\ n # NIL_LEAF

\* IntervalNode.grandparent
Grandparent(t, n) ==
  IF t.heap[n].parent = None THEN None ELSE t.heap[t.heap[n].parent].parent

\* IntervalNode.sibling
Sibling(t, n) ==
  IF t.heap[n].parent = None THEN None
  ELSE IF t.heap[t.heap[n].parent].left = n THEN t.heap[t.heap[n].parent].right
  ELSE t.heap[t.heap[n].parent].left

\* IntervalNode.uncle
Uncle(t, n) ==
  IF t.heap[n].parent = None THEN None ELSE Sibling(t, t.heap[n].parent)

\* field assignment  node.f = v
SetColor(t, n, c) == [t EXCEPT !.heap[n].color = c]

\* the refresh storing the maximum into end instead of max_end
UpdateMaxEnd_WritesEnd(t, node) ==
  IF node = None \/ node = NIL_LEAF THEN t
  ELSE LET nd == t.heap[node]
           l == IF IsReal(nd.left) THEN t.heap[nd.left].max_end ELSE DatetimeMin
           r == IF IsReal(nd.right) THEN t.heap[nd.right].max_end ELSE DatetimeMin
       IN [t EXCEPT !.heap[node].end = Max3(nd.end, l, r)]

\* _update_max_end
UpdateMaxEnd(t, node) ==
  IF node = None \/ node = NIL_LEAF THEN t
  ELSE LET nd == t.heap[node]
           l == IF IsReal(nd.left) THEN t.heap[nd.left].max_end ELSE DatetimeMin
           r == IF IsReal(nd.right) THEN t.heap[nd.right].max_end ELSE DatetimeMin
       IN [t EXCEPT !.heap[node].max_end = Max3(nd.end, l, r)]

\* the upward walk cut short: only the node itself is refreshed
UpdateMaxEndUpToRoot_NodeOnly(t, current) ==
  IF current # NIL_LEAF /\ current # None THEN UpdateMaxEnd(t, current) ELSE t

RECURSIVE UpdateMaxEndUpToRoot(_, _)
\* _update_max_end_up_to_root
UpdateMaxEndUpToRoot(t, current) ==
  IF current # NIL_LEAF /\ current # None
  THEN UpdateMaxEndUpToRoot(UpdateMaxEnd(t, current), t.heap[current].parent)
  ELSE t

\* _left_rotate line 168 / _right_rotate line 193: child.parent = node
\* when child is a real node
SetParentIfReal(t, child, node) ==
  IF child # None /\ child # NIL_LEAF
  THEN [t EXCEPT !.heap[child].parent = node] ELSE t

\* _left_rotate, lines 170-175: put child where node hangs (node.parent is
\* not reassigned before these lines)
LeftRotateRelink(t, node, child) ==
  LET p == t.heap[node].parent
  IN IF p = None THEN [t EXCEPT !.root = child]
     ELSE IF node = t.heap[p].left
          THEN [t EXCEPT !.heap[p].left = child]
          ELSE [t EXCEPT !.heap[p].right = child]

\* _right_rotate, lines 195-200
RightRotateRelink(t, node, child) ==
  LET p == t.heap[node].parent
  IN IF p = None THEN [t EXCEPT !.root = child]
     ELSE IF node = t.heap[p].right
          THEN [t EXCEPT !.heap[p].right = child]
          ELSE [t EXCEPT !.heap[p].left = child]

\* the first lines of the rotation without the assignment of line 169: the
\* child keeps its old parent
LeftRotateDetach_ParentKept(t, node, right_child) ==
  LET rl == t.heap[right_child].left
  IN SetParentIfReal([t EXCEPT !.heap[node].right = rl], rl, node)

\* _left_rotate, lines 165-169: the assignments up to right_child.parent
LeftRotateDetach(t, node, right_child) ==
  LET rl == t.heap[right_child].left
  IN [SetParentIfReal([t EXCEPT !.heap[node].right = rl], rl, node)
        EXCEPT !.heap[right_child].parent = t.heap[node].parent]

\* _right_rotate, lines 190-194
RightRotateDetach(t, node, left_child) ==
  LET lr == t.heap[left_child].right
  IN [SetParentIfReal([t EXCEPT !.heap[node].left = lr], lr, node)
        EXCEPT !.heap[left_child].parent = t.heap[node].parent]

\* the end of the rotation without the refresh of max_end
LeftRotateAttach_NoRefresh(t, node, right_child) ==
  [t EXCEPT !.heap[right_child].left = node,
            !.heap[node].parent = right_child]

\* _left_rotate, lines 176-180
LeftRotateAttach(t, node, right_child) ==
  UpdateMaxEnd(
    UpdateMaxEnd([t EXCEPT !.heap[right_child].left = node,
                           !.heap[node].parent = right_child], node),
    right_child)

\* _right_rotate, lines 201-205
RightRotateAttach(t, node, left_child) ==
  UpdateMaxEnd(
    UpdateMaxEnd([t EXCEPT !.heap[left_child].right = node,
                           !.heap[node].parent = left_child], node),
    left_child)

\* the rotation without its early return on a missing right child
LeftRotate_Unguarded(t, node) ==
  LeftRotateAttach(
    LeftRotateRelink(LeftRotateDetach(t, node, t.heap[node].right),
                     node, t.heap[node].right),
    node, t.heap[node].right)

\* _left_rotate
LeftRotate(t, node) ==
  IF t.heap[node].right = None \/ t.heap[node].right = NIL_LEAF THEN t
  ELSE LeftRotateAttach(
         LeftRotateRelink(LeftRotateDetach(t, node, t.heap[node].right),
                          node, t.heap[node].right),
         node, t.heap[node].right)

\* _right_rotate
RightRotate(t, node) ==
  IF t.heap[node].left = None \/ t.heap[node].left = NIL_LEAF THEN t
  ELSE RightRotateAttach(
         RightRotateRelink(RightRotateDetach(t, node, t.heap[node].left),
                           node, t.heap[node].left),
         node, t.heap[node].left)

RECURSIVE InsertDescend_TiesLeft(_, _, _, _)
\* the descent with ties routed to the left subtree
InsertDescend_TiesLeft(t, node, parent, current) ==
  IF current # None /\ current # NIL_LEAF
  THEN IF t.heap[node].start <= t.heap[current].start
       THEN InsertDescend_TiesLeft(t, node, current, t.heap[current].left)
       ELSE InsertDescend_TiesLeft(t, node, current, t.heap[current].right)
  ELSE parent

RECURSIVE InsertDescend(_, _, _, _)
\* insert, lines 102-110: the BST descent; yields the eventual parent
InsertDescend(t, node, parent, current) ==
  IF current # None /\ current # NIL_LEAF
  THEN IF t.heap[node].start < t.heap[current].start
       THEN InsertDescend(t, node, current, t.heap[current].left)
       ELSE InsertDescend(t, node, current, t.heap[current].right)
  ELSE parent

\* the link step choosing the side by end instead of start
InsertLink_ByEnd(t, node, parent) ==
  LET t1 == [t EXCEPT !.heap[node].parent = parent]
  IN IF parent = None THEN [t1 EXCEPT !.root = node]
     ELSE IF t1.heap[node].end < t1.heap[parent].end
          THEN [t1 EXCEPT !.heap[parent].left = node]
          ELSE [t1 EXCEPT !.heap[parent].right = node]

\* the link step treating a node of equal start as already present
InsertLink_SkipTies(t, node, parent) ==
  LET t1 == [t EXCEPT !.heap[node].parent = parent]
  IN IF parent = None THEN [t1 EXCEPT !.root = node]
     ELSE IF t1.heap[node].start < t1.heap[parent].start
          THEN [t1 EXCEPT !.heap[parent].left = node]
          ELSE IF t1.heap[node].start > t1.heap[parent].start
               THEN [t1 EXCEPT !.heap[parent].right = node]
               ELSE t1

\* insert, lines 112-119: link the node under the parent found by the descent
InsertLink(t, node, parent) ==
  LET t1 == [t EXCEPT !.heap[node].parent = parent]
  IN IF parent = None THEN [t1 EXCEPT !.root = node]
     ELSE IF t1.heap[node].start < t1.heap[parent].start
          THEN [t1 EXCEPT !.heap[parent].left = node]
          ELSE [t1 EXCEPT !.heap[parent].right = node]

\* the fixup returning without the final recolouring of the root
InsertFixupEnd_RootLeft(t) == t

\* _insert_fixup, line 289
InsertFixupEnd(t) == SetColor(t, t.root, BLACK)

\* _insert_fixup, lines 245-253 and 270-276: the red-uncle case
InsertFixupCase1(t, new_node, uncle, grandparent) ==
  IF grandparent # None
  THEN [t |-> SetColor(SetColor(SetColor(t, t.heap[new_node].parent, BLACK),
                                uncle, BLACK),
                       grandparent, RED),
        new_node |-> grandparent, brk |-> FALSE]
  ELSE [t |-> SetColor(SetColor(t, t.heap[new_node].parent, BLACK), uncle, BLACK),
        new_node |-> new_node, brk |-> TRUE]

\* _insert_fixup, lines 261-262 and 284-285
BlackenParent(t, new_node) ==
  IF t.heap[new_node].parent # None
  THEN SetColor(t, t.heap[new_node].parent, BLACK) ELSE t

\* the outer (left) case that rotates without recolouring parent and
\* grandparent
InsertFixupCase3Left_NoRecolour(t, new_node, grandparent) ==
  [t |-> RightRotate(t, grandparent), new_node |-> new_node, brk |-> FALSE]

\* _insert_fixup, lines 260-264: new_node is an outer (left) child
InsertFixupCase3Left(t, new_node, grandparent) ==
  [t |-> RightRotate(SetColor(BlackenParent(t, new_node), grandparent, RED),
                     grandparent),
   new_node |-> new_node, brk |-> FALSE]

\* _insert_fixup, lines 283-288: new_node is an outer (right) child
InsertFixupCase3Right(t, new_node, grandparent) ==
  [t |-> IF grandparent # None
         THEN LeftRotate(SetColor(BlackenParent(t, new_node), grandparent, RED),
                         grandparent)
         ELSE BlackenParent(t, new_node),
   new_node |-> new_node, brk |-> FALSE]

\* _insert_fixup, lines 241-264: one iteration, parent is the left child of grandparent
InsertFixupLeft(t, new_node, grandparent) ==
  LET uncle == Uncle(t, new_node)
  IN
  IF uncle # None /\ t.heap[uncle].color = RED
  THEN InsertFixupCase1(t, new_node, uncle, grandparent)
  ELSE IF new_node = t.heap[t.heap[new_node].parent].right
       THEN InsertFixupCase3Left(LeftRotate(t, t.heap[new_node].parent),
                                 t.heap[new_node].parent, grandparent)
       ELSE InsertFixupCase3Left(t, new_node, grandparent)

\* _insert_fixup, lines 266-288: one iteration, the other orientation
InsertFixupRight(t, new_node, grandparent) ==
  LET uncle == Uncle(t, new_node)
  IN
  IF uncle # None /\ t.heap[uncle].color = RED
  THEN InsertFixupCase1(t, new_node, uncle, grandparent)
  ELSE IF new_node = t.heap[t.heap[new_node].parent].left
       THEN InsertFixupCase3Right(RightRotate(t, t.heap[new_node].parent),
                                  t.heap[new_node].parent, grandparent)
       ELSE InsertFixupCase3Right(t, new_node, grandparent)

\* _insert_fixup, lines 239-288: the loop body
InsertFixupIteration(t, new_node, grandparent) ==
  IF grandparent # None /\ t.heap[new_node].parent = t.heap[grandparent].left
  THEN InsertFixupLeft(t, new_node, grandparent)
  ELSE InsertFixupRight(t, new_node, grandparent)

RECURSIVE InsertFixup(_, _)
RECURSIVE InsertFixupContinue(_)
\* _insert_fixup: after an iteration, leave the loop on break or test it again
InsertFixupContinue(it) ==
  IF it.brk THEN InsertFixupEnd(it.t) ELSE InsertFixup(it.t, it.new_node)

\* _insert_fixup
InsertFixup(t, new_node) ==
  IF t.heap[new_node].parent # None /\ t.heap[t.heap[new_node].parent].color = RED
  THEN InsertFixupContinue(InsertFixupIteration(t, new_node, Grandparent(t, new_node)))
  ELSE InsertFixupEnd(t)

\* insert, lines 97-99
InsertPrepare(t, node) ==
  [t EXCEPT !.heap[node].left = NIL_LEAF,
            !.heap[node].right = NIL_LEAF,
            !.heap[node].color = RED]

\* insert, lines 97-122: the node linked in and max_end refreshed, before the
\* fixup
InsertLinked(t, node) ==
  LET prepared == InsertPrepare(t, node)
  IN UpdateMaxEndUpToRoot(
       InsertLink(prepared, node, InsertDescend(prepared, node, None, t.root)),
       node)

\* insert
InsertOp(t, node) == InsertFixup(InsertLinked(t, node), node)

\* RedBlackIntervalTree.__init__: the tree right after construction
EmptyTree == [heap |-> [n \in {NIL_LEAF} |-> NilNode], root |-> NIL_LEAF]

\* node = IntervalNode(s, e, data); tree.insert(node): the new node is the
\* next object of the heap and carries its own identity as payload
InsertNew(t, s, e) ==
  LET node == Cardinality(DOMAIN t.heap)
      h0 == [n \in DOMAIN t.heap \cup {node} |->
               IF n = node THEN IntervalNode(s, e, node) ELSE t.heap[n]]
  IN InsertOp([t EXCEPT !.heap = h0], node)

\* node = IntervalNode(s, e, data): the tree with the new object in its heap,
\* before insert is called
Allocate(t, s, e) ==
  LET node == Cardinality(DOMAIN t.heap)
  IN [t EXCEPT !.heap = [n \in DOMAIN t.heap \cup {node} |->
                           IF n = node THEN IntervalNode(s, e, node)
                           ELSE t.heap[n]]]

RECURSIVE FindConflictFrom_ClosedOverlap(_, _, _, _)
\* find_conflict descent with the overlap test of closed intervals
FindConflictFrom_ClosedOverlap(t, current, start, end) ==
  IF current # None /\ current # NIL_LEAF
  THEN IF t.heap[current].start <= end /\ start <= t.heap[current].end
       THEN current
       ELSE LET l == t.heap[current].left
            IN IF l # None /\ l # NIL_LEAF /\ t.heap[l].max_end >= start
               THEN FindConflictFrom_ClosedOverlap(t, l, start, end)
               ELSE FindConflictFrom_ClosedOverlap(t, t.heap[current].right, start, end)
  ELSE None

RECURSIVE FindConflictFrom_Containment(_, _, _, _)
\* find_conflict descent reporting only a stored interval that contains the query
FindConflictFrom_Containment(t, current, start, end) ==
  IF current # None /\ current # NIL_LEAF
  THEN IF t.heap[current].start <= start /\ end <= t.heap[current].end
       THEN current
       ELSE LET l == t.heap[current].left
            IN IF l # None /\ l # NIL_LEAF /\ t.heap[l].max_end >= start
               THEN FindConflictFrom_Containment(t, l, start, end)
               ELSE FindConflictFrom_Containment(t, t.heap[current].right, start, end)
  ELSE None

RECURSIVE FindConflictFrom_SentinelVisited(_, _, _, _)
\* find_conflict descent whose loop stops only at an absent reference, so that
\* the sentinel is examined like a stored node
FindConflictFrom_SentinelVisited(t, current, start, end) ==
  IF current # None
  THEN IF t.heap[current].start < end /\ start < t.heap[current].end
       THEN current
       ELSE LET l == t.heap[current].left
            IN IF l # None /\ l # NIL_LEAF /\ t.heap[l].max_end >= start
               THEN FindConflictFrom_SentinelVisited(t, l, start, end)
               ELSE FindConflictFrom_SentinelVisited(t, t.heap[current].right,
                                                     start, end)
  ELSE None

RECURSIVE FindConflictFrom(_, _, _, _)
\* find_conflict, lines 145-155: the pruning descent from current
FindConflictFrom(t, current, start, end) ==
  IF current # None /\ current # NIL_LEAF
  THEN IF t.heap[current].start < end /\ start < t.heap[current].end
       THEN current
       ELSE LET l == t.heap[current].left
            IN IF l # None /\ l # NIL_LEAF /\ t.heap[l].max_end >= start
               THEN FindConflictFrom(t, l, start, end)
               ELSE FindConflictFrom(t, t.heap[current].right, start, end)
  ELSE None

\* find_conflict
FindConflictOp(t, start, end) == FindConflictFrom(t, t.root, start, end)

\* the test  (x is None or x.color == NodeColor.BLACK)  of lines 309-310, 318, 346-347, 355
NoneOrBlack(t, x) == x = None \/ t.heap[x].color = BLACK

\* _delete_fixup, lines 308-310 and 345-347
SiblingChildrenBlack(t, sibling) ==
  /\ sibling # None
  /\ NoneOrBlack(t, t.heap[sibling].left)
  /\ NoneOrBlack(t, t.heap[sibling].right)

\* _delete_fixup, lines 312-316 and 349-353: recolour the sibling, move up
DeleteFixupCase2(t, new_node, sibling, grandparent) ==
  [t |-> SetColor(t, sibling, RED),
   new_node |-> IF grandparent # None THEN grandparent ELSE new_node,
   brk |-> grandparent = None]

\* _delete_fixup, lines 326-328 and 363-365
DeleteFixupRecolour(t, new_node, sibling) ==
  LET parent == t.heap[new_node].parent
  IN SetColor(IF sibling # None
              THEN SetColor(t, sibling, t.heap[parent].color) ELSE t,
              parent, BLACK)

\* _delete_fixup, lines 304-306
DeleteFixupCase1Left(t, sibling, grandparent) ==
  LeftRotate(SetColor(SetColor(t, sibling, BLACK), grandparent, RED), grandparent)

\* _delete_fixup, lines 320-323
DeleteFixupCase3Left(t, sibling) ==
  RightRotate(
    SetColor(IF t.heap[sibling].left # None
             THEN SetColor(t, t.heap[sibling].left, BLACK) ELSE t,
             sibling, RED),
    sibling)

\* _delete_fixup, lines 329-330
BlackenSiblingRight(t, sibling) ==
  IF sibling # None /\ t.heap[sibling].right # None
  THEN SetColor(t, t.heap[sibling].right, BLACK) ELSE t

\* _delete_fixup, lines 326-332
DeleteFixupCase4Left(t, new_node, sibling, grandparent) ==
  [t |-> LeftRotate(BlackenSiblingRight(DeleteFixupRecolour(t, new_node, sibling),
                                        sibling),
                    grandparent),
   new_node |-> new_node, brk |-> TRUE]

\* _delete_fixup, lines 308-332: after the red-sibling case
DeleteFixupLeftRest(t, new_node, sibling, grandparent) ==
  IF SiblingChildrenBlack(t, sibling)
  THEN DeleteFixupCase2(t, new_node, sibling, grandparent)
  ELSE IF sibling # None /\ NoneOrBlack(t, t.heap[sibling].right)
       THEN LET rotated == DeleteFixupCase3Left(t, sibling)
            IN DeleteFixupCase4Left(rotated, new_node, Sibling(rotated, new_node),
                                    grandparent)
       ELSE DeleteFixupCase4Left(t, new_node, sibling, grandparent)

\* _delete_fixup, lines 301-332: one iteration, new_node is grandparent.left
DeleteFixupLeft(t, new_node, grandparent) ==
  LET sibling == Sibling(t, new_node)
  IN
  IF sibling # None /\ t.heap[sibling].color = RED
  THEN LET rotated == DeleteFixupCase1Left(t, sibling, grandparent)
       IN DeleteFixupLeftRest(rotated, new_node, Sibling(rotated, new_node),
                              grandparent)
  ELSE DeleteFixupLeftRest(t, new_node, sibling, grandparent)

\* _delete_fixup, lines 338-341 (grandparent present)
DeleteFixupCase1Right(t, sibling, grandparent) ==
  RightRotate(SetColor(SetColor(t, sibling, BLACK), grandparent, RED), grandparent)

\* _delete_fixup, lines 357-360
DeleteFixupCase3Right(t, sibling) ==
  LeftRotate(
    SetColor(IF t.heap[sibling].right # None
             THEN SetColor(t, t.heap[sibling].right, BLACK) ELSE t,
             sibling, RED),
    sibling)

\* _delete_fixup, lines 366-367
BlackenSiblingLeft(t, sibling) ==
  IF sibling # None /\ t.heap[sibling].left # None
  THEN SetColor(t, t.heap[sibling].left, BLACK) ELSE t

\* _delete_fixup, lines 368-369
RightRotateIfPresent(t, grandparent) ==
  IF grandparent # None THEN RightRotate(t, grandparent) ELSE t

\* _delete_fixup, lines 363-370
DeleteFixupCase4Right(t, new_node, sibling, grandparent) ==
  [t |-> RightRotateIfPresent(
           BlackenSiblingLeft(DeleteFixupRecolour(t, new_node, sibling), sibling),
           grandparent),
   new_node |-> new_node, brk |-> TRUE]

\* _delete_fixup, lines 345-370: after the red-sibling case
DeleteFixupRightRest(t, new_node, sibling, grandparent) ==
  IF SiblingChildrenBlack(t, sibling)
  THEN DeleteFixupCase2(t, new_node, sibling, grandparent)
  ELSE IF sibling # None /\ NoneOrBlack(t, t.heap[sibling].left)
       THEN LET rotated == DeleteFixupCase3Right(t, sibling)
            IN DeleteFixupCase4Right(rotated, new_node, Sibling(rotated, new_node),
                                     grandparent)
       ELSE DeleteFixupCase4Right(t, new_node, sibling, grandparent)

\* _delete_fixup, lines 334-370: one iteration, the other orientation
DeleteFixupRight(t, new_node, grandparent) ==
  LET sibling == Sibling(t, new_node)
  IN
  IF sibling # None /\ t.heap[sibling].color = RED
  THEN IF grandparent # None
       THEN LET rotated == DeleteFixupCase1Right(t, sibling, grandparent)
            IN DeleteFixupRightRest(rotated, new_node, Sibling(rotated, new_node),
                                    grandparent)
       ELSE [t |-> SetColor(t, sibling, BLACK),
             new_node |-> new_node, brk |-> TRUE]
  ELSE DeleteFixupRightRest(t, new_node, sibling, grandparent)

\* _delete_fixup, lines 298-370: the loop body
DeleteFixupIteration(t, new_node, grandparent) ==
  IF grandparent # None /\ new_node = t.heap[grandparent].left
  THEN DeleteFixupLeft(t, new_node, grandparent)
  ELSE DeleteFixupRight(t, new_node, grandparent)

RECURSIVE DeleteFixup(_, _)
RECURSIVE DeleteFixupContinue(_)
\* _delete_fixup: after an iteration, leave the loop (line 371) on break or
\* test it again
DeleteFixupContinue(it) ==
  IF it.brk THEN SetColor(it.t, it.new_node, BLACK)
  ELSE DeleteFixup(it.t, it.new_node)

\* _delete_fixup
DeleteFixup(t, new_node) ==
  IF t.heap[new_node].parent # None /\ t.heap[new_node].color = BLACK
  THEN DeleteFixupContinue(DeleteFixupIteration(t, new_node, Grandparent(t, new_node)))
  ELSE SetColor(t, new_node, BLACK)

\* delete
DeleteOp(t, node) == DeleteFixup(t, node)

\* ---- the loops of the operations with their iterations counted ----
\* Each operator below follows one while loop of the code and yields the
\* number of times its body runs, or -1 when the body would run more than
\* fuel times.

\* one more iteration than rest, -1 carried through
OneMore(rest) == IF rest = -1 THEN -1 ELSE rest + 1

RECURSIVE InsertDescendSteps(_, _, _, _)
\* insert, lines 105-110
InsertDescendSteps(t, node, current, fuel) ==
  IF current # None /\ current # NIL_LEAF
  THEN IF fuel = 0 THEN -1
       ELSE OneMore(InsertDescendSteps(
                      t, node,
                      IF t.heap[node].start < t.heap[current].start
                      THEN t.heap[current].left ELSE t.heap[current].right,
                      fuel - 1))
  ELSE 0

RECURSIVE UpdateMaxEndUpToRootSteps(_, _, _)
\* _update_max_end_up_to_root, lines 228-230
UpdateMaxEndUpToRootSteps(t, current, fuel) ==
  IF current # NIL_LEAF /\ current # None
  THEN IF fuel = 0 THEN -1
       ELSE OneMore(UpdateMaxEndUpToRootSteps(UpdateMaxEnd(t, current),
                                              t.heap[current].parent, fuel - 1))
  ELSE 0

RECURSIVE InsertFixupLoops(_, _, _)
\* _insert_fixup, lines 238-288
InsertFixupLoops(t, new_node, fuel) ==
  IF t.heap[new_node].parent # None /\ t.heap[t.heap[new_node].parent].color = RED
  THEN IF fuel = 0 THEN -1
       ELSE LET it == InsertFixupIteration(t, new_node, Grandparent(t, new_node))
            IN IF it.brk THEN 1
               ELSE OneMore(InsertFixupLoops(it.t, it.new_node, fuel - 1))
  ELSE 0

\* _left_rotate, lines 163-164: 1 when the call passes the guard and rotates
LeftRotateCount(t, node) == IF IsReal(t.heap[node].right) THEN 1 ELSE 0

\* _right_rotate, lines 188-189: 1 when the call passes the guard and rotates
RightRotateCount(t, node) == IF IsReal(t.heap[node].left) THEN 1 ELSE 0

\* _insert_fixup, lines 260-264: the rotations of the outer (left) case
InsertFixupCase3LeftRotations(t, new_node, grandparent) ==
  RightRotateCount(SetColor(BlackenParent(t, new_node), grandparent, RED),
                   grandparent)

\* _insert_fixup, lines 283-288: the rotations of the outer (right) case
InsertFixupCase3RightRotations(t, new_node, grandparent) ==
  IF grandparent # None
  THEN LeftRotateCount(SetColor(BlackenParent(t, new_node), grandparent, RED),
                       grandparent)
  ELSE 0

\* _insert_fixup, lines 241-264: the rotations of one iteration, parent is
\* the left child of grandparent
InsertFixupLeftRotations(t, new_node, grandparent) ==
  LET uncle == Uncle(t, new_node)
  IN
  IF uncle # None /\ t.heap[uncle].color = RED
  THEN 0
  ELSE IF new_node = t.heap[t.heap[new_node].parent].right
       THEN LeftRotateCount(t, t.heap[new_node].parent)
            + InsertFixupCase3LeftRotations(LeftRotate(t, t.heap[new_node].parent),
                                            t.heap[new_node].parent, grandparent)
       ELSE InsertFixupCase3LeftRotations(t, new_node, grandparent)

\* _insert_fixup, lines 266-288: the rotations of one iteration, the other
\* orientation
InsertFixupRightRotations(t, new_node, grandparent) ==
  LET uncle == Uncle(t, new_node)
  IN
  IF uncle # None /\ t.heap[uncle].color = RED
  THEN 0
  ELSE IF new_node = t.heap[t.heap[new_node].parent].left
       THEN RightRotateCount(t, t.heap[new_node].parent)
            + InsertFixupCase3RightRotations(RightRotate(t, t.heap[new_node].parent),
                                             t.heap[new_node].parent, grandparent)
       ELSE InsertFixupCase3RightRotations(t, new_node, grandparent)

\* _insert_fixup, lines 239-288: the rotations of one pass of the loop body
InsertFixupIterationRotations(t, new_node, grandparent) ==
  IF grandparent # None /\ t.heap[new_node].parent = t.heap[grandparent].left
  THEN InsertFixupLeftRotations(t, new_node, grandparent)
  ELSE InsertFixupRightRotations(t, new_node, grandparent)

\* k more than the count rest, -1 (fuel exhausted) passed on
AddTo(k, rest) == IF rest = -1 THEN -1 ELSE rest + k

RECURSIVE InsertFixupRotations(_, _, _)
\* _insert_fixup, lines 238-288: the rotations of the whole loop
InsertFixupRotations(t, new_node, fuel) ==
  IF t.heap[new_node].parent # None /\ t.heap[t.heap[new_node].parent].color = RED
  THEN IF fuel = 0 THEN -1
       ELSE LET it == InsertFixupIteration(t, new_node, Grandparent(t, new_node))
                k == InsertFixupIterationRotations(t, new_node,
                                                   Grandparent(t, new_node))
            IN IF it.brk THEN k
               ELSE AddTo(k, InsertFixupRotations(it.t, it.new_node, fuel - 1))
  ELSE 0

RECURSIVE DeleteFixupLoops(_, _, _)
\* _delete_fixup, lines 297-370
DeleteFixupLoops(t, new_node, fuel) ==
  IF t.heap[new_node].parent # None /\ t.heap[new_node].color = BLACK
  THEN IF fuel = 0 THEN -1
       ELSE LET it == DeleteFixupIteration(t, new_node, Grandparent(t, new_node))
            IN IF it.brk THEN 1
               ELSE OneMore(DeleteFixupLoops(it.t, it.new_node, fuel - 1))
  ELSE 0

RECURSIVE FindConflictVisits_NoRightStep(_, _, _, _, _)
\* the query loop with the else branch (line 154) left out: without a left
\* subtree to enter, current stays where it is
FindConflictVisits_NoRightStep(t, current, start, end, fuel) ==
  IF current # None /\ current # NIL_LEAF
  THEN IF fuel = 0 THEN -1
       ELSE IF t.heap[current].start < end /\ start < t.heap[current].end
            THEN 1
            ELSE LET l == t.heap[current].left
                 IN OneMore(FindConflictVisits_NoRightStep(
                              t,
                              IF l # None /\ l # NIL_LEAF /\ t.heap[l].max_end >= start
                              THEN l ELSE current,
                              start, end, fuel - 1))
  ELSE 0

RECURSIVE FindConflictVisits(_, _, _, _, _)
\* find_conflict, lines 145-154: the nodes the loop examines
FindConflictVisits(t, current, start, end, fuel) ==
  IF current # None /\ current # NIL_LEAF
  THEN IF fuel = 0 THEN -1
       ELSE IF t.heap[current].start < end /\ start < t.heap[current].end
            THEN 1
            ELSE LET l == t.heap[current].left
                 IN OneMore(FindConflictVisits(
                              t,
                              IF l # None /\ l # NIL_LEAF /\ t.heap[l].max_end >= start
                              THEN l ELSE t.heap[current].right,
                              start, end, fuel - 1))
  ELSE 0

RECURSIVE InOrder(_, _)
\* __repr_inorder_traversal: the nodes below node, left to right
InOrder(t, node) ==
  IF node = None \/ node = NIL_LEAF THEN <<>>
  ELSE InOrder(t, t.heap[node].left) \o <<node>> \o InOrder(t, t.heap[node].right)

\* the real nodes reachable from node by left/right links
SubtreeNodes(t, node) ==
  LET listing == InOrder(t, node)
  IN {listing[i] : i \in 1..Len(listing)}

\* the real nodes reachable from root
Reachable == SubtreeNodes(Tree, root)

\* the nodes constructed so far (NIL_LEAF excluded)
Constructed == DOMAIN heap \ {NIL_LEAF}

\* ---- the state machine ----

\* RedBlackIntervalTree.__init__
Init ==
  /\ heap = EmptyTree.heap
  /\ root = EmptyTree.root
  /\ deleted = {}
  /\ query = NoQuery
  /\ result = None
  /\ call = RegularCall

\* node = IntervalNode(s, e, data); tree.insert(node)
Insert ==
  /\ Cardinality(Constructed) < MaxNodes
  /\ \E s \in Times, e \in Times :
       /\ ValidInterval(s, e)
       /\ LET t == InsertNew(Tree, s, e)
          IN /\ heap' = t.heap
             /\ root' = t.root
  /\ query' = NoQuery
  /\ result' = None
  /\ call' = RegularCall
  /\ UNCHANGED deleted

\* tree.delete(node), node an inserted node the caller has not deleted yet;
\* at most limit such calls in one behaviour
DeleteWithin(limit) ==
  /\ Cardinality(deleted) < limit
  /\ \E node \in Reachable \ deleted :
       LET t == DeleteOp(Tree, node)
       IN /\ heap' = t.heap
          /\ root' = t.root
          /\ deleted' = deleted \cup {node}
  /\ query' = NoQuery
  /\ result' = None
  /\ call' = RegularCall

\* tree.delete(node)
Delete == DeleteWithin(MaxDeletes)

\* tree.delete(node), one more call allowed than Delete allows
DeleteFurther == DeleteWithin(MaxDeletes + 1)

\* result = tree.find_conflict(start, end)
FindConflict ==
  /\ \E s \in Times, e \in Times :
       /\ s < e
       /\ query' = <<s, e>>
       /\ result' = FindConflictOp(Tree, s, e)
  /\ call' = RegularCall
  /\ UNCHANGED <<heap, root, deleted>>

Next == Insert \/ Delete \/ FindConflict

Spec == Init /\ [][Next]_vars

\* result = tree.find_conflict(start, start + 1): the query for one day
FindConflictOneDay ==
  /\ \E s \in Times :
       /\ s + 1 \in Times
       /\ query' = <<s, s + 1>>
       /\ result' = FindConflictOp(Tree, s, s + 1)
  /\ call' = RegularCall
  /\ UNCHANGED <<heap, root, deleted>>

\* inserts and deletes of any reservation, queries for one day
NextOneDayQueries == Insert \/ Delete \/ FindConflictOneDay

SpecOneDayQueries == Init /\ [][NextOneDayQueries]_vars

\* the tree used with insert and find_conflict only
NextInsertOnly == Insert \/ FindConflict

SpecInsertOnly == Init /\ [][NextInsertOnly]_vars

\* the tree under its mutating operations only
NextUpdates == Insert \/ Delete

SpecUpdates == Init /\ [][NextUpdates]_vars

\* IntervalNode(s, e, data) with start >= end: line 29 raises ValueError, no
\* node comes into being and the tree is not involved
ConstructRefused ==
  /\ \E s \in Times, e \in Times : ~ValidInterval(s, e)
  /\ call' = [op |-> "IntervalNode", arg |-> None, raised |-> "ValueError"]
  /\ UNCHANGED <<heap, root, deleted, query, result>>

\* tree.delete(node) for a node the caller has deleted before: the call
\* runs _delete_fixup like any other and returns normally
DeleteAgain ==
  /\ \E node \in deleted :
       LET t == DeleteOp(Tree, node)
       IN /\ heap' = t.heap
          /\ root' = t.root
          /\ call' = [op |-> "delete", arg |-> node, raised |-> None]
  /\ query' = NoQuery
  /\ result' = None
  /\ UNCHANGED deleted

\* node = IntervalNode(s, e, data); tree.delete(node) for a node never
\* inserted: its parent is None, _delete_fixup only colours it BLACK and
\* returns normally; nothing refers to the node afterwards
DeleteFresh ==
  /\ \E s \in Times, e \in Times :
       /\ ValidInterval(s, e)
       /\ LET node == Cardinality(DOMAIN heap)
              fresh == [n \in DOMAIN heap \cup {node} |->
                          IF n = node THEN IntervalNode(s, e, node) ELSE heap[n]]
              t == DeleteOp([heap |-> fresh, root |-> root], node)
          IN /\ heap' = [n \in DOMAIN heap |-> t.heap[n]]
             /\ root' = t.root
             /\ call' = [op |-> "delete", arg |-> node, raised |-> None]
  /\ query' = NoQuery
  /\ result' = None
  /\ UNCHANGED deleted

\* nodes in one behaviour of one-day reservations
MaxOneDayNodes == MaxNodes + 2

\* node = IntervalNode(s, s + 1 day, data); tree.insert(node): reservations of
\* a single day each, which leaves room for deeper trees
InsertOneDay ==
  /\ Cardinality(Constructed) < MaxOneDayNodes
  /\ \E s \in Times :
       /\ s + 1 \in Times
       /\ ValidInterval(s, s + 1)
       /\ LET t == InsertNew(Tree, s, s + 1)
          IN /\ heap' = t.heap
             /\ root' = t.root
  /\ query' = NoQuery
  /\ result' = None
  /\ call' = RegularCall
  /\ UNCHANGED deleted

\* the tree of one-day reservations under its mutating operations
NextOneDay == InsertOneDay \/ Delete

SpecOneDay == Init /\ [][NextOneDay]_vars

\* node = IntervalNode(s, e, data); tree.insert(node), as long as no rotation
\* was called directly
InsertUnrotated == call.op = "regular" /\ Insert

\* tree._left_rotate(node) called directly, once, on a stored node of a tree
\* built by inserts
LeftRotateCall ==
  /\ call.op = "regular"
  /\ \E node \in Reachable :
       LET t == LeftRotate(Tree, node)
       IN /\ heap' = t.heap
          /\ root' = t.root
          /\ call' = [op |-> "_left_rotate", arg |-> node, raised |-> None]
  /\ query' = NoQuery
  /\ result' = None
  /\ UNCHANGED deleted

\* tree._right_rotate(node) called directly, once, on a stored node of a tree
\* built by inserts
RightRotateCall ==
  /\ call.op = "regular"
  /\ \E node \in Reachable :
       LET t == RightRotate(Tree, node)
       IN /\ heap' = t.heap
          /\ root' = t.root
          /\ call' = [op |-> "_right_rotate", arg |-> node, raised |-> None]
  /\ query' = NoQuery
  /\ result' = None
  /\ UNCHANGED deleted

\* a tree is built by inserts, then one rotation is applied to one of its nodes
NextRotate == InsertUnrotated \/ LeftRotateCall \/ RightRotateCall

SpecRotate == Init /\ [][NextRotate]_vars

\* nodes in one behaviour of inserts only
MaxDeepNodes == MaxNodes + 4

\* node = IntervalNode(s, s + 1 day, data); tree.insert(node): one-day
\* reservations starting at any instant of Times, inserted and never
\* deleted, up to a tree on which the insert fixup runs its loop twice
InsertDeep ==
  /\ Cardinality(Constructed) < MaxDeepNodes
  /\ \E s \in Times :
       /\ ValidInterval(s, s + 1)
       /\ LET t == InsertNew(Tree, s, s + 1)
          IN /\ heap' = t.heap
             /\ root' = t.root
  /\ query' = NoQuery
  /\ result' = None
  /\ call' = RegularCall
  /\ UNCHANGED deleted

\* the tree growing by inserts alone
NextDeep == InsertDeep

SpecDeep == Init /\ [][NextDeep]_vars

\* the tree under inserts and one more delete than SpecUpdates allows
NextDeletes == Insert \/ DeleteFurther

SpecDeletes == Init /\ [][NextDeletes]_vars

\* nodes are constructed, from valid and invalid ranges, inserted and deleted
NextConstruct == Insert \/ Delete \/ ConstructRefused

SpecConstruct == Init /\ [][NextConstruct]_vars

\* the tree under its mutating operations, calls that break the contract of
\* the interface included
NextAnyCall == Insert \/ Delete \/ ConstructRefused \/ DeleteAgain \/ DeleteFresh

SpecAnyCall == Init /\ [][NextAnyCall]_vars

\* main.py, lines 8-12: the reservations of the demonstration, in days of
\* January 2023
MainIntervals == << <<1, 5>>, <<3, 7>>, <<6, 10>>, <<8, 12>>, <<2, 4>> >>

\* main.py, lines 14-18: the next reservation of the demonstration is inserted
MainInsert ==
  /\ Cardinality(Constructed) < Len(MainIntervals)
  /\ LET next == MainIntervals[Cardinality(Constructed) + 1]
         t == InsertNew(Tree, next[1], next[2])
     IN /\ heap' = t.heap
        /\ root' = t.root
  /\ query' = NoQuery
  /\ result' = None
  /\ call' = RegularCall
  /\ UNCHANGED deleted

\* main.py, line 46: a conflict query once the five reservations are stored
MainFindConflict ==
  /\ Cardinality(Constructed) = Len(MainIntervals)
  /\ \E s \in 1..MaxMainDay, e \in 1..MaxMainDay :
       /\ s < e
       /\ query' = <<s, e>>
       /\ result' = FindConflictOp(Tree, s, e)
  /\ call' = RegularCall
  /\ UNCHANGED <<heap, root, deleted>>

\* main.py: the demonstration
NextMain == MainInsert \/ MainFindConflict

SpecMain == Init /\ [][NextMain]_vars

\* ---- notions the properties are stated in ----

\* node n's interval overlaps the half-open query [s, e)
Overlaps(n, s, e) == heap[n].start < e /\ s < heap[n].end

\* a find_conflict call has returned and the tree was not changed since
Queried == query # NoQuery

\* the real nodes below the left / right child of n
LeftSubtree(n) == SubtreeNodes(Tree, heap[n].left)

RightSubtree(n) == SubtreeNodes(Tree, heap[n].right)

\* the in-order listing of the whole tree
InOrderAll == InOrder(Tree, root)

RECURSIVE BlackHeight(_)
\* number of BLACK real nodes on every path from n down to a sentinel leaf,
\* or -1 when two such paths disagree
BlackHeight(n) ==
  IF ~IsReal(n) THEN 0
  ELSE LET l == BlackHeight(heap[n].left)
           r == BlackHeight(heap[n].right)
       IN IF l = -1 \/ r = -1 \/ l # r THEN -1
          ELSE l + (IF heap[n].color = BLACK THEN 1 ELSE 0)

RECURSIVE Levels(_)
\* the number of levels of the subtree rooted at n (0 for a sentinel leaf)
Levels(n) ==
  IF ~IsReal(n) THEN 0
  ELSE 1 + Max2(Levels(heap[n].left), Levels(heap[n].right))

\* more iterations than any loop over the nodes of the heap and one new node
\* can make without visiting a node twice
LoopFuel == Cardinality(DOMAIN heap) + 1

\* the tree t with the colours of a red-uncle step: parent and uncle BLACK,
\* grandparent RED, nothing else touched
RedUncleRecoloured(t, parent, uncle, grandparent) ==
  [t EXCEPT !.heap = [n \in DOMAIN t.heap |->
     IF n \in {parent, uncle} THEN [t.heap[n] EXCEPT !.color = BLACK]
     ELSE IF n = grandparent THEN [t.heap[n] EXCEPT !.color = RED]
     ELSE t.heap[n]]]

\* in tree after, the nodes node, parent and grandparent of tree before have
\* been rotated and recoloured as the black-uncle step prescribes: the
\* in-order sequence is kept, the former grandparent is a RED child of a
\* BLACK node top that took its place, top being the parent (outer case) or
\* the node itself (inner case, one rotation more), and top's other child
\* is the RED remaining one of the two
BlackUncleRestructured(before, after, node, parent, grandparent) ==
  LET top == after.heap[grandparent].parent
      other == IF top = parent THEN node ELSE parent
      inner == \/ /\ before.heap[grandparent].left = parent
                  /\ before.heap[parent].right = node
               \/ /\ before.heap[grandparent].right = parent
                  /\ before.heap[parent].left = node
  IN /\ InOrder(after, after.root) = InOrder(before, before.root)
     /\ top = IF inner THEN node ELSE parent
     /\ after.heap[top].parent = before.heap[grandparent].parent
     /\ after.heap[top].color = BLACK
     /\ after.heap[grandparent].color = RED
     /\ after.heap[other].color = RED
     /\ {after.heap[top].left, after.heap[top].right} = {grandparent, other}
     /\ \A n \in DOMAIN before.heap \ {node, parent, grandparent} :
          after.heap[n].color = before.heap[n].color

RECURSIVE InsertFixupAsPrescribed(_, _, _)
\* every iteration the insert fixup makes from tree t and node new_node is
\* a red-uncle step that only recolours and moves up to the grandparent, or
\* a black-uncle step that restructures and ends the loop
InsertFixupAsPrescribed(t, new_node, fuel) ==
  LET parent == t.heap[new_node].parent
      grandparent == Grandparent(t, new_node)
      uncle == Uncle(t, new_node)
      it == InsertFixupIteration(t, new_node, grandparent)
  IN IF parent = None \/ t.heap[parent].color # RED THEN TRUE
     ELSE /\ fuel > 0
          /\ grandparent # None
          /\ uncle # None
          /\ IF t.heap[uncle].color = RED
             THEN /\ it.t = RedUncleRecoloured(t, parent, uncle, grandparent)
                  /\ it.new_node = grandparent
                  /\ ~it.brk
                  /\ InsertFixupAsPrescribed(it.t, grandparent, fuel - 1)
             ELSE /\ BlackUncleRestructured(t, it.t, new_node, parent, grandparent)
                  /\ InsertFixupLoops(it.t, it.new_node, fuel) = 0

\* in tree t the uncle of new_node is RED (the recolouring case of the fixup)
RedUncleCase(t, new_node) ==
  Uncle(t, new_node) # None /\ t.heap[Uncle(t, new_node)].color = RED

RECURSIVE InsertFixupRotatesLast(_, _, _)
\* in the insert fixup run from tree t and node new_node, an iteration
\* that is followed by another one is a red-uncle iteration without a
\* rotation; an iteration of the black-uncle case, or one that rotates, is
\* the last
InsertFixupRotatesLast(t, new_node, fuel) ==
  LET it == InsertFixupIteration(t, new_node, Grandparent(t, new_node))
      k == InsertFixupIterationRotations(t, new_node, Grandparent(t, new_node))
  IN IF t.heap[new_node].parent = None
        \/ t.heap[t.heap[new_node].parent].color # RED THEN TRUE
     ELSE /\ fuel > 0
          /\ IF RedUncleCase(t, new_node) /\ k = 0
             THEN it.brk \/ InsertFixupRotatesLast(it.t, it.new_node, fuel - 1)
             ELSE it.brk \/ InsertFixupLoops(it.t, it.new_node, fuel) = 0

\* the maximum end over the subtree rooted at the real node n of tree t
SubtreeMaxEndIn(t, n) ==
  LET ends == {t.heap[k].end : k \in SubtreeNodes(t, n)}
  IN CHOOSE m \in ends : \A e \in ends : e <= m

\* tree after is tree before with child y rotated above its parent x: the
\* in-order sequence and all colours are kept, y is the parent of x and
\* hangs where x hung (as the root when x was the root), and max_end of x
\* and of y is the maximum end over their new subtrees
RotatedAbove(before, after, x, y) ==
  LET p == before.heap[x].parent
  IN /\ InOrder(after, after.root) = InOrder(before, before.root)
     /\ \A n \in DOMAIN before.heap : after.heap[n].color = before.heap[n].color
     /\ after.heap[x].parent = y
     /\ x \in {after.heap[y].left, after.heap[y].right}
     /\ after.heap[y].parent = p
     /\ IF p = None
        THEN before.root = x /\ after.root = y
        ELSE /\ after.root = before.root
             /\ before.heap[p].left = x => after.heap[p].left = y
             /\ before.heap[p].right = x => after.heap[p].right = y
     /\ after.heap[x].max_end = SubtreeMaxEndIn(after, x)
     /\ after.heap[y].max_end = SubtreeMaxEndIn(after, y)

RootIsBlack == heap[root].color = BLACK

NoRedRed ==
  \A n \in Reachable :
    heap[n].color = RED =>
      /\ IsReal(heap[n].left) => heap[heap[n].left].color # RED
      /\ IsReal(heap[n].right) => heap[heap[n].right].color # RED

BlackHeightUniform == BlackHeight(root) # -1

\* the maximum end over the subtree rooted at the real node n
SubtreeMaxEnd(n) ==
  LET ends == {heap[k].end : k \in SubtreeNodes(Tree, n)}
  IN CHOOSE m \in ends : \A e \in ends : e <= m

\* ---- claims ----

\* C1: completeness of find_conflict on a tree built by inserts: when some
\* stored interval overlaps the query [start, end), the call returns a node.
C1_Completeness ==
  (Queried /\ \E n \in Reachable : Overlaps(n, query[1], query[2]))
    => result # None

\* find_conflict(1, 5) on a tree holding only [5,9)
TouchingExample == FindConflictOp(InsertNew(EmptyTree, 5, 9), 1, 5)

\* find_conflict(1, 5) on a tree holding only [4,9)
OverlappingExample == FindConflictOp(InsertNew(EmptyTree, 4, 9), 1, 5)

\* C2: soundness of find_conflict under half-open semantics: a returned node
\* is a real node reachable from root whose interval overlaps the query, so a
\* stored interval that only touches the query is never returned; a tree
\* holding only [5,9) queried with (1,5) yields None, a tree holding only
\* [4,9) queried with (1,5) yields that node.
C2_Soundness ==
  Queried =>
    /\ result # None =>
         /\ result \in Reachable
         /\ result # NIL_LEAF
         /\ Overlaps(result, query[1], query[2])
         /\ heap[result].start # query[2]
         /\ heap[result].end # query[1]
    /\ TouchingExample = None
    /\ OverlappingExample = 1

\* C2 witness: a call returned a node while another stored interval only
\* touches the query.
C2_Witness ==
  /\ Queried
  /\ result # None
  /\ \E m \in Reachable : heap[m].end = query[1] \/ heap[m].start = query[2]

\* C3: membership round trip on a tree built by inserts: querying with the
\* bounds of an inserted interval returns a node.
C3_RoundTrip ==
  (Queried /\ \E n \in Reachable : <<heap[n].start, heap[n].end>> = query)
    => result # None

\* C4: after any sequence of inserts and deletes the root is BLACK, no RED
\* node has a RED child, and all root-to-sentinel paths hold the same number
\* of BLACK nodes.
C4_RedBlack == RootIsBlack /\ NoRedRed /\ BlackHeightUniform

\* C5 (as stated): after any sequence of inserts and deletes, every node in
\* n's left subtree has start strictly less than n.start and every node in
\* n's right subtree has start greater than or equal to n.start.
C5_StrictBSTOrder ==
  \A n \in Reachable :
    /\ \A m \in LeftSubtree(n) : heap[m].start < heap[n].start
    /\ \A m \in RightSubtree(n) : heap[m].start >= heap[n].start

\* C5 (amended): after any sequence of inserts and deletes, every node in
\* n's left subtree has start less than or equal to n.start and every node
\* in n's right subtree has start greater than or equal to n.start.
C5_BSTOrder ==
  \A n \in Reachable :
    /\ \A m \in LeftSubtree(n) : heap[m].start <= heap[n].start
    /\ \A m \in RightSubtree(n) : heap[m].start >= heap[n].start

\* C5 witness: after a delete whose fixup rotated, the third node inserted
\* lies in the left subtree of the fourth, which has the same start.
C5_Witness ==
  /\ deleted # {}
  /\ {3, 4} \subseteq Reachable
  /\ 3 \in LeftSubtree(4)
  /\ heap[3].start = heap[4].start

\* C6: after any sequence of inserts and deletes, every real node reachable
\* from root has max_end = max(end, max_end of each real child), which is the
\* maximum end over its subtree.
C6_Augmentation ==
  \A n \in Reachable :
    LET l == heap[n].left
        r == heap[n].right
    IN /\ heap[n].max_end =
            Max3(heap[n].end,
                 IF IsReal(l) THEN heap[l].max_end ELSE heap[n].end,
                 IF IsReal(r) THEN heap[r].max_end ELSE heap[n].end)
       /\ heap[n].max_end = SubtreeMaxEnd(n)

\* C6 witness: four nodes of equal start are stored, the insert fixup has
\* rotated the first one away from the root, and a delete fixup has rotated
\* the fourth above the third, so that the fourth's max_end is the third's end.
C6_Witness ==
  /\ Reachable = {1, 2, 3, 4}
  /\ root # 1
  /\ deleted # {}
  /\ \A n \in Reachable : heap[n].start = heap[root].start
  /\ heap[3].parent = 4
  /\ heap[4].max_end > heap[4].end
  /\ heap[4].max_end = heap[3].end

\* C7: the nodes reachable from root are the nodes inserted minus the nodes
\* deleted.
C7_DeleteRemoves == Reachable = Constructed \ deleted

\* C8: a find_conflict call never returns a node that was deleted.
C8_DeletedNotReported == Queried => result \notin deleted

\* C9: insert adds exactly the new node: the nodes reachable after insert(n)
\* are the nodes reachable before plus n.
C9_InsertAddsOne ==
  [][Cardinality(Constructed') = Cardinality(Constructed) + 1
       => Reachable' = Reachable \cup {Cardinality(Constructed) + 1}]_vars

\* C9 witness: every constructed node is stored, two of them with the same
\* interval and a third overlapping them, the last insert having rotated.
C9_Witness ==
  /\ Cardinality(Reachable) = 3
  /\ Reachable = Constructed
  /\ root = 2
  /\ \E n, m, k \in Reachable :
       /\ n # m /\ k # n /\ k # m
       /\ heap[n].start = heap[m].start /\ heap[n].end = heap[m].end
       /\ Overlaps(k, heap[n].start, heap[n].end)

\* C10: after any sequence of inserts, the in-order traversal lists nodes in
\* non-decreasing start, and nodes of equal start in insertion order.
C10_StableOrder ==
  \A i, j \in 1..Len(InOrderAll) :
    i < j =>
      \/ heap[InOrderAll[i]].start < heap[InOrderAll[j]].start
      \/ /\ heap[InOrderAll[i]].start = heap[InOrderAll[j]].start
         /\ InOrderAll[i] < InOrderAll[j]

\* C10 witness: three nodes of equal start are stored and the insert fixup
\* has rotated the first one away from the root.
C10_Witness ==
  /\ Len(InOrderAll) = 3
  /\ root # 1
  /\ \A i \in 1..3 : heap[InOrderAll[i]].start = heap[root].start

\* C11: after inserting A=[1,5), B=[3,7), C=[6,10), D=[8,12), E=[2,4) in this
\* order into an empty tree, find_conflict(4, 8) returns a node whose interval
\* overlaps [4,8) and find_conflict(20, 25) returns None.
C11_Scenario ==
  (Queried /\ Len(InOrderAll) = Len(MainIntervals)) =>
    /\ query = <<4, 8>> =>
         /\ result # None
         /\ result \in Reachable
         /\ Overlaps(result, 4, 8)
    /\ query = <<20, 25>> => result = None

\* C11 witness: the five reservations are stored with B at the root, and the
\* query (4, 8) has returned B.
C11_Witness ==
  /\ Reachable = 1..5
  /\ \A i \in 1..5 : <<heap[i].start, heap[i].end>> = MainIntervals[i]
  /\ query = <<4, 8>>
  /\ result = 2
  /\ root = 2

\* C12: on a newly created tree (root is the sentinel) find_conflict returns
\* None for every query, also for a query that overlaps the sentinel's own
\* [start, end); the sentinel is never returned as a stored interval.
C12_EmptyTree ==
  Queried =>
    /\ root = NIL_LEAF => result = None
    /\ result # NIL_LEAF

\* C12 witness: the tree is empty and the query that has returned None is
\* the sentinel's own interval.
C12_Witness ==
  /\ root = NIL_LEAF
  /\ Constructed = {}
  /\ query = <<heap[NIL_LEAF].start, heap[NIL_LEAF].end>>
  /\ result = None

\* C13: constructing an IntervalNode with start >= end raises an error and
\* yields no node (the heap and the tree stay as they are), so every node
\* that was constructed, and with it every node reachable from root,
\* satisfies start < end.
C13_ConstructionValidation ==
  /\ [](\A n \in Constructed \cup Reachable : heap[n].start < heap[n].end)
  /\ [][call'.op = "IntervalNode" =>
         /\ call'.raised = "ValueError"
         /\ heap' = heap
         /\ root' = root]_vars

\* C13 witness: a construction has just been refused with ValueError while
\* the tree holds nodes covering every valid range of length one.
C13_Witness ==
  /\ call.op = "IntervalNode"
  /\ call.raised = "ValueError"
  /\ Cardinality(Reachable) >= 2
  /\ \E n, m \in Reachable : heap[n].start # heap[m].start

\* C14: delete(n) for a node n that is not in the tree (never inserted, or
\* already deleted) signals an error and leaves the root and every reachable
\* node's links, colour and max_end unchanged.
C14_DeleteNonMemberRejected ==
  [][call'.op = "delete" =>
       /\ call'.raised # None
       /\ root' = root
       /\ \A n \in Reachable : heap'[n] = heap[n]]_vars

\* C15: in every state reached by inserts and deletes (each delete applied
\* to a stored node) the sentinel NIL_LEAF is BLACK and its left, right,
\* parent and max_end are the ones it had when the tree was created.
C15_SentinelImmutable ==
  /\ heap[NIL_LEAF].color = BLACK
  /\ heap[NIL_LEAF].left = NilNode.left
  /\ heap[NIL_LEAF].right = NilNode.right
  /\ heap[NIL_LEAF].parent = NilNode.parent
  /\ heap[NIL_LEAF].max_end = NilNode.max_end

\* C16: insert, delete and find_conflict leave the start, end and data of
\* every node unchanged, the stored nodes and the argument node alike (the
\* node handed to insert keeps the payload it was constructed with, which is
\* its identity); only colour, links and max_end change.
C16_IntervalPayloadFrame ==
  [][
      /\ \A n \in DOMAIN heap :
           /\ heap'[n].start = heap[n].start
           /\ heap'[n].end = heap[n].end
           /\ heap'[n].data = heap[n].data
      /\ \A n \in DOMAIN heap' \ DOMAIN heap :
           /\ heap'[n].data = n
           /\ heap'[n].start < heap'[n].end
           /\ heap'[n].end <= heap'[n].max_end
  ]_vars

\* C16 witness: after four inserts, a delete and a query, a node inserted
\* first is no longer the root, a node's max_end exceeds its own end and the
\* colours are not all those of an insert-only tree.
C16_Witness ==
  /\ Cardinality(Reachable) = 4
  /\ deleted # {}
  /\ Queried
  /\ root # 1
  /\ \E n \in Reachable : heap[n].max_end > heap[n].end
  /\ ~BlackHeightUniform

\* C17: from every state reached by inserts and deletes (inserts differ in
\* their loops only by the start of the node), each call of insert,
\* delete and find_conflict finishes after finitely many loop iterations:
\* the descent of insert and the upward refresh of max_end make at most one
\* iteration per level, the insert fixup and the delete fixup leave their
\* loops, and find_conflict examines at most one node per level of the tree.
C17_Termination ==
  /\ \A s \in Times :
       (s + 1 \in Times /\ ValidInterval(s, s + 1)) =>
         LET node == Cardinality(DOMAIN heap)
             created == Allocate(Tree, s, s + 1)
             linked == InsertLinked(created, node)
         IN /\ InsertDescendSteps(InsertPrepare(created, node), node, root, LoopFuel)
                 \in 0..Levels(root)
            /\ UpdateMaxEndUpToRootSteps(linked, node, LoopFuel)
                 \in 1..(Levels(root) + 1)
            /\ InsertFixupLoops(linked, node, LoopFuel) \in 0..(Levels(root) + 1)
  /\ \A node \in Reachable \ deleted :
       DeleteFixupLoops(Tree, node, LoopFuel) \in 0..Levels(root)
  /\ \A s \in Times, e \in Times :
       s < e => FindConflictVisits(Tree, root, s, e, LoopFuel) \in 0..Levels(root)

\* C17 witness: after a delete the tree has four levels or more, deleting
\* some stored node runs the delete-fixup loop twice, and some query examines
\* four nodes.
C17_Witness ==
  /\ Levels(root) >= 4
  /\ deleted # {}
  /\ \E node \in Reachable \ deleted : DeleteFixupLoops(Tree, node, LoopFuel) = 2
  /\ \E s \in Times, e \in Times :
       s < e /\ FindConflictVisits(Tree, root, s, e, LoopFuel) = 4

\* C18: after any sequence of inserts with no delete the root is BLACK, no
\* RED node has a RED child and all root-to-sentinel paths hold the same
\* number of BLACK nodes; and whenever the fixup of a further insert finds a
\* RED parent, each of its iterations either (uncle RED) only recolours parent and
\* uncle BLACK and grandparent RED and moves up to the grandparent, or
\* (uncle BLACK) makes at most an inner rotation, recolours and rotates the
\* grandparent, after which the loop is over, in both orientations.
C18_InsertOnlyColouring ==
  /\ RootIsBlack
  /\ NoRedRed
  /\ BlackHeightUniform
  /\ \A s \in Times :
       ValidInterval(s, s + 1) =>
         InsertFixupAsPrescribed(
           InsertLinked(Allocate(Tree, s, s + 1), Cardinality(DOMAIN heap)),
           Cardinality(DOMAIN heap), LoopFuel)

\* C18 witness: eight nodes were inserted and none deleted; the third node
\* was rotated above the first two by an inner and an outer rotation, and
\* the insert of the eighth recoloured its parent BLACK and its grandparent
\* RED in a tree of four levels.
C18_Witness ==
  /\ deleted = {}
  /\ Reachable = 1..8
  /\ heap[1].parent = 3 /\ heap[2].parent = 3
  /\ heap[8].color = RED
  /\ heap[heap[8].parent].color = BLACK
  /\ heap[Grandparent(Tree, 8)].color = RED
  /\ Levels(root) = 4

\* C19: for a node x whose right (resp. left) child y is a real node,
\* _left_rotate(x) (resp. _right_rotate(x)) keeps the in-order sequence of
\* all nodes and every colour, makes y the parent of x in x's former
\* position (root is updated when x was the root: x becomes y's left, resp.
\* right, child), and leaves x.max_end and y.max_end equal to the maximum end
\* over their new subtrees.
C19_RotationsPreserve ==
  [][
      /\ (call'.op = "_left_rotate" /\ IsReal(heap[call'.arg].right)) =>
           /\ RotatedAbove(Tree, [heap |-> heap', root |-> root'],
                           call'.arg, heap[call'.arg].right)
           /\ heap'[heap[call'.arg].right].left = call'.arg
      /\ (call'.op = "_right_rotate" /\ IsReal(heap[call'.arg].left)) =>
           /\ RotatedAbove(Tree, [heap |-> heap', root |-> root'],
                           call'.arg, heap[call'.arg].left)
           /\ heap'[heap[call'.arg].left].right = call'.arg
  ]_vars

\* C19 witness: _left_rotate(x) has rotated the root x of a four-node tree
\* below its right child, x has taken over that child's former left subtree
\* and x.max_end is now smaller than the new root's.
C19_Witness ==
  /\ call.op = "_left_rotate"
  /\ Cardinality(Reachable) = 4
  /\ heap[call.arg].parent = root
  /\ heap[root].left = call.arg
  /\ IsReal(heap[call.arg].right)
  /\ heap[call.arg].max_end < heap[root].max_end

\* C20: _left_rotate(x) when x.right is the sentinel, and _right_rotate(x)
\* when x.left is the sentinel, leave root and every node's links, colour
\* and max_end unchanged.
C20_RotationNoOp ==
  [][
      /\ (call'.op = "_left_rotate" /\ heap[call'.arg].right = NIL_LEAF) =>
           (heap' = heap /\ root' = root)
      /\ (call'.op = "_right_rotate" /\ heap[call'.arg].left = NIL_LEAF) =>
           (heap' = heap /\ root' = root)
  ]_vars

\* C20 witness: _left_rotate was called on a node that is not the root, has
\* a real left child and the sentinel as right child.
C20_Witness ==
  /\ call.op = "_left_rotate"
  /\ heap[call.arg].right = NIL_LEAF
  /\ IsReal(heap[call.arg].left)
  /\ heap[call.arg].parent # None

\* C21: after any sequence of inserts and deletes the root's parent is None,
\* every other real node n reachable from root has a real parent p with
\* exactly one of p.left, p.right equal to n, every missing child of a real
\* node is the sentinel (never None), and no node is reachable by two
\* different paths.
C21_LinkConsistency ==
  /\ heap[root].parent = None
  /\ \A n \in Reachable :
       /\ heap[n].left # None
       /\ heap[n].right # None
       /\ n # root =>
            /\ IsReal(heap[n].parent)
            /\ (heap[heap[n].parent].left = n) # (heap[heap[n].parent].right = n)
  /\ Len(InOrderAll) = Cardinality(Reachable)

\* C21 witness: four nodes are stored, one was deleted, and the node inserted
\* first is no longer the root but a child, so both fixups have relinked
\* nodes.
C21_Witness ==
  /\ Cardinality(Reachable) = 4
  /\ deleted # {}
  /\ root # 1
  /\ IsReal(heap[1].parent)
  /\ \E n \in Reachable : IsReal(heap[n].left) /\ IsReal(heap[n].right)

\* C22: on every tree built by inserts only, one more insert makes at most
\* two rotations that pass the rotation's guard; an iteration of the fixup
\* in the black-uncle case, the only one that rotates, is the last of the
\* loop, and only red-uncle recolouring iterations are followed by another.
C22_BoundedRestructuring ==
  [][
      \A node \in {Cardinality(DOMAIN heap)} :
        \A linked \in {InsertLinked(Allocate(Tree, heap'[node].start,
                                             heap'[node].end), node)} :
          /\ InsertFixupRotations(linked, node, LoopFuel) \in 0..2
          /\ InsertFixupRotatesLast(linked, node, LoopFuel)
          /\ InsertFixup(linked, node) = [heap |-> heap', root |-> root']
  ]_vars

\* C22 witness: a tree built by inserts that takes one more insert, which
\* recolours under a red uncle, moves up and then rotates twice in its
\* second iteration.
C22_Witness ==
  /\ deleted = {}
  /\ Cardinality(Constructed) < MaxDeepNodes
  /\ \E s \in Times :
       /\ ValidInterval(s, s + 1)
       /\ InsertFixupLoops(
            InsertLinked(Allocate(Tree, s, s + 1), Cardinality(DOMAIN heap)),
            Cardinality(DOMAIN heap), LoopFuel) = 2
       /\ InsertFixupRotations(
            InsertLinked(Allocate(Tree, s, s + 1), Cardinality(DOMAIN heap)),
            Cardinality(DOMAIN heap), LoopFuel) = 2

====
